---- MODULE Spec2Model ----
(***************************************************************************)
(* Model of src/reversi.js: the Reversi board object, its capture scan,   *)
(* its legality test and its move application.                            *)
(*                                                                         *)
(* The board is a JavaScript object used as a map.  Its keys are strings: *)
(* a vector used as a property key is converted by its toString method,   *)
(* an array used as a property key by Array.prototype.toString.  A key    *)
(* that is absent reads as undefined, which is loosely equal (==) to no   *)
(* TILESTATE value.                                                        *)
(***************************************************************************)
EXTENDS Integers, Sequences, FiniteSets, TLC

VARIABLES width, board, moves, last

vars == <<width, board, moves, last>>

(***************************************************************************)
(* Bounds of the model.                                                    *)
(***************************************************************************)
\* largest board side constructed
MaxN == 8
\* how far outside the grid the positions passed by a caller may lie
Margin == 1

(***************************************************************************)
(* TILESTATE and vector.                                                   *)
(***************************************************************************)
EMPTY == 0
WHITE == 1
BLACK == 2

TILESTATE == {EMPTY, WHITE, BLACK}

\* the value a missing property reads as
UNDEFINED == -1

vector(x, y) == <<x, y>>

plus(u, v) == vector(v[1] + u[1], v[2] + u[2])

toString(v) == "(" \o ToString(v[1]) \o "," \o ToString(v[2]) \o ")"

\* Array.prototype.toString of an array of vectors: the elements' strings
\* joined by commas; the empty array gives the empty string.
RECURSIVE arrayToString(_)
arrayToString(items) ==
    IF Len(items) = 0 THEN ""
    ELSE IF Len(items) = 1 THEN toString(items[1])
    ELSE toString(items[1]) \o "," \o arrayToString(Tail(items))

(***************************************************************************)
(* Property access on the board object.                                    *)
(***************************************************************************)
Get(b, key) == IF key \in DOMAIN b THEN b[key] ELSE UNDEFINED

Put(b, key, value) ==
    [k \in DOMAIN b \cup {key} |-> IF k = key THEN value ELSE b[k]]

\* key in b
HasKey(b, key) == key \in DOMAIN b

InRange(n, p) == p[1] \in 0..(n - 1) /\ p[2] \in 0..(n - 1)

Grid(n) == (0..(n - 1)) \X (0..(n - 1))

\* positions off the grid: Margin cells beyond a corner or beyond the end of
\* a border row or column
OffGrid(n) ==
    {p \in {0 - Margin, 0, n - 1, n - 1 + Margin}
            \X {0 - Margin, 0, n - 1, n - 1 + Margin} : ~InRange(n, p)}

\* positions a caller passes: the grid and some positions off it
Positions(n) == Grid(n) \cup OffGrid(n)

(***************************************************************************)
(* init_board                                                              *)
(***************************************************************************)
\* init_board with the colour of one centre tile wrong
init_board_miscoloured(n) ==
    LET h == n \div 2
        b0 == [k \in {toString(p) : p \in Grid(n)} |-> EMPTY]
        b1 == Put(b0, toString(vector(h - 1, h - 1)), WHITE)
        b2 == Put(b1, toString(vector(h - 1, h)), WHITE)
        b3 == Put(b2, toString(vector(h, h - 1)), BLACK)
    IN  Put(b3, toString(vector(h, h)), WHITE)

init_board(n) ==
    LET h == n \div 2
        b0 == [k \in {toString(p) : p \in Grid(n)} |-> EMPTY]
        b1 == Put(b0, toString(vector(h - 1, h - 1)), WHITE)
        b2 == Put(b1, toString(vector(h - 1, h)), BLACK)
        b3 == Put(b2, toString(vector(h, h - 1)), BLACK)
    IN  Put(b3, toString(vector(h, h)), WHITE)

(***************************************************************************)
(* captured_pieces                                                         *)
(***************************************************************************)
\* the 8 deltas in the order the nested forEach pushes them
deltas ==
    << vector(-1, -1), vector(-1, 0), vector(-1, 1),
       vector(0, -1),                 vector(0, 1),
       vector(1, -1),  vector(1, 0),  vector(1, 1) >>

\* From tile on, every tile of the walk along delta lies off the grid: one
\* coordinate is already past an edge and delta moves it further away.
OffGridForever(n, tile, delta) ==
    \/ delta[1] = -1 /\ tile[1] < 0
    \/ delta[1] = 1 /\ tile[1] >= n
    \/ delta[2] = -1 /\ tile[2] < 0
    \/ delta[2] = 1 /\ tile[2] >= n

\* One run of the while(true) loop of captured_pieces_in_direction from
\* current_tile with traversed_tiles = trav.  The result says whether the
\* loop returns (returns), the array returned (items) and the keys that were
\* looked up in the board (looked).  The first operand of || is
\* (!current_tile) in current_board, that is: the key "false" in the board.
RECURSIVE walk(_, _, _, _, _, _, _)
walk(b, n, current_tile, capturing_colour, delta, trav, looked) ==
    LET key == toString(current_tile)
        seen == looked \cup {"false", key}
        v == Get(b, key)
    IN  IF HasKey(b, "false") \/ v = EMPTY
        THEN [returns |-> TRUE, items |-> <<>>, looked |-> seen]
        ELSE IF v = capturing_colour
        THEN [returns |-> TRUE, items |-> trav, looked |-> seen]
        ELSE IF v = UNDEFINED /\ OffGridForever(n, current_tile, delta)
        THEN [returns |-> FALSE, items |-> <<>>, looked |-> seen]
        ELSE walk(b, n, plus(current_tile, delta), capturing_colour, delta,
                  Append(trav, current_tile), seen)

captured_pieces_in_direction(b, n, new_tile, capturing_colour, delta) ==
    walk(b, n, new_tile, capturing_colour, delta, <<>>, {})

\* _.union(a1, a2, ...): the arguments flattened one level, then the
\* duplicates (by identity) removed.  An array object is modelled as a
\* record [ref, items]; ref is its identity.
RECURSIVE flatten1(_)
flatten1(args) ==
    IF Len(args) = 0 THEN <<>> ELSE args[1] \o flatten1(Tail(args))

RECURSIVE uniq(_, _)
uniq(elems, kept) ==
    IF Len(elems) = 0 THEN kept
    ELSE IF \E i \in 1..Len(kept) : kept[i].ref = elems[1].ref
         THEN uniq(Tail(elems), kept)
         ELSE uniq(Tail(elems), Append(kept, elems[1]))

union(args) == uniq(flatten1(args), <<>>)

\* _.any(list) without a predicate: some element is truthy.  Every element
\* here is an array object, and every object is truthy.
any(list) == \E i \in 1..Len(list) : TRUE

\* captured_pieces: returns (does the call return), value (the array
\* returned), looked (the keys looked up in the board).
captured_pieces(b, n, new_tile, capturing_colour) ==
    LET scan == [i \in 1..Len(deltas) |->
                    captured_pieces_in_direction(b, n, new_tile,
                                                 capturing_colour, deltas[i])]
        mapped == [i \in 1..Len(deltas) |->
                    [ref |-> i, items |-> scan[i].items]]
    IN  [returns |-> \A i \in 1..Len(deltas) : scan[i].returns,
         value |-> IF \A i \in 1..Len(deltas) : scan[i].returns
                   THEN union(<<mapped>>) ELSE <<>>,
         looked |-> UNION {scan[i].looked : i \in 1..Len(deltas)}]

(***************************************************************************)
(* is_legal_move                                                           *)
(***************************************************************************)
\* is_legal_move with both operands evaluated (& in place of &&)
is_legal_move_eager(b, n, tile, capturing_colour) ==
    LET cp == captured_pieces(b, n, tile, capturing_colour)
    IN  [returns |-> cp.returns,
         value |-> /\ cp.returns
                   /\ Get(b, toString(tile)) = EMPTY
                   /\ any(cp.value),
         looked |-> {toString(tile)} \cup cp.looked]

\* is_legal_move without the test that the tile is EMPTY
is_legal_move_any_tile(b, n, tile, capturing_colour) ==
    LET cp == captured_pieces(b, n, tile, capturing_colour)
    IN  [returns |-> cp.returns,
         value |-> cp.returns /\ any(cp.value),
         looked |-> cp.looked]

\* && evaluates captured_pieces only when the tile is EMPTY
is_legal_move(b, n, tile, capturing_colour) ==
    IF Get(b, toString(tile)) = EMPTY
    THEN LET cp == captured_pieces(b, n, tile, capturing_colour)
         IN  [returns |-> cp.returns,
              value |-> cp.returns /\ any(cp.value),
              looked |-> {toString(tile)} \cup cp.looked]
    ELSE [returns |-> TRUE, value |-> FALSE, looked |-> {toString(tile)}]

(***************************************************************************)
(* take_move                                                               *)
(***************************************************************************)
\* the _.each loop: board[piece] = capturing_colour for every element
RECURSIVE each(_, _, _)
each(b, list, capturing_colour) ==
    IF Len(list) = 0 THEN b
    ELSE each(Put(b, arrayToString(list[1].items), capturing_colour),
              Tail(list), capturing_colour)

\* outcome: "ok", "throw" (Illegal move) or "hang"; board: the board after
take_move(b, n, tile, capturing_colour) ==
    LET legal == is_legal_move(b, n, tile, capturing_colour)
        cp == captured_pieces(b, n, tile, capturing_colour)
    IN  IF ~legal.returns
        THEN [outcome |-> "hang", board |-> b, looked |-> legal.looked]
        ELSE IF ~legal.value
        THEN [outcome |-> "throw", board |-> b, looked |-> legal.looked]
        ELSE IF ~cp.returns
        THEN [outcome |-> "hang", board |-> b,
              looked |-> legal.looked \cup cp.looked]
        ELSE [outcome |-> "ok",
              board |-> Put(each(b, cp.value, capturing_colour),
                            toString(tile), capturing_colour),
              looked |-> legal.looked \cup cp.looked]

(***************************************************************************)
(* The state machine: a board is constructed, then a caller calls its     *)
(* three methods with any position and any TILESTATE.                     *)
(***************************************************************************)
\* what the last call was and what it returned
Call(op, p, c, outcome, flag, value, looked) ==
    [op |-> op, p |-> p, c |-> c, outcome |-> outcome, flag |-> flag,
     value |-> value, looked |-> looked]

\* the caller holds no result: after construction, and after each Return
Idle == Call("idle", vector(0, 0), EMPTY, "ok", FALSE, <<>>, {})

\* the caller may make the call op(p, c): it is idle, or it repeats its
\* last call
MayCall(op, p, c) ==
    \/ last.op = "idle"
    \/ last.op = op /\ last.p = p /\ last.c = c

\* the arguments of the next call: any when idle, else those of the last call
CallPositions == IF last.op = "idle" THEN Positions(width) ELSE {last.p}

CallColours == IF last.op = "idle" THEN TILESTATE ELSE {last.c}

Init ==
    /\ width \in {n \in 2..MaxN : n % 2 = 0}
    /\ board = init_board(width)
    /\ moves = 0
    /\ last = Idle

IsLegalMoveCall(p, c) ==
    LET r == is_legal_move(board, width, p, c)
    IN  /\ MayCall("is_legal_move", p, c)
        /\ last' = Call("is_legal_move", p, c,
                        IF r.returns THEN "ok" ELSE "hang",
                        r.value, <<>>, r.looked)
        /\ UNCHANGED <<width, board, moves>>

\* captured_pieces marking the tile it starts from
CapturedPiecesCall_marking(p, c) ==
    LET r == captured_pieces(board, width, p, c)
    IN  /\ MayCall("captured_pieces", p, c)
        /\ last' = Call("captured_pieces", p, c,
                        IF r.returns THEN "ok" ELSE "hang",
                        FALSE, r.value, r.looked)
        /\ board' = Put(board, toString(p), c)
        /\ UNCHANGED <<width, moves>>

CapturedPiecesCall(p, c) ==
    LET r == captured_pieces(board, width, p, c)
    IN  /\ MayCall("captured_pieces", p, c)
        /\ last' = Call("captured_pieces", p, c,
                        IF r.returns THEN "ok" ELSE "hang",
                        FALSE, r.value, r.looked)
        /\ UNCHANGED <<width, board, moves>>

\* successful moves explored on a board of side n: the larger the board,
\* the fewer
MoveBudget(n) == MaxN \div n

TakeMoveCall(p, c) ==
    LET r == take_move(board, width, p, c)
    IN  /\ MayCall("take_move", p, c)
        /\ r.outcome = "ok" => moves < MoveBudget(width)
        /\ board' = r.board
        /\ moves' = IF r.outcome = "ok" THEN moves + 1 ELSE moves
        /\ last' = Call("take_move", p, c, r.outcome, FALSE, <<>>, r.looked)
        /\ UNCHANGED width

\* the caller has used the result of its last call
Return ==
    /\ last.op # "idle"
    /\ last' = Idle
    /\ UNCHANGED <<width, board, moves>>

Next ==
    \/ \E p \in CallPositions : \E c \in CallColours :
          \/ IsLegalMoveCall(p, c)
          \/ CapturedPiecesCall(p, c)
          \/ TakeMoveCall(p, c)
    \/ Return

Spec == Init /\ [][Next]_vars

TypeOK ==
    /\ width \in 2..MaxN
    /\ moves \in 0..MoveBudget(width)
    /\ \A k \in DOMAIN board : board[k] \in TILESTATE
    /\ last.op \in {"idle", "is_legal_move", "captured_pieces", "take_move"}
    /\ last.outcome \in {"ok", "throw", "hang"}

(***************************************************************************)
(* Properties.                                                             *)
(***************************************************************************)
\* the positions contained in the array a call of captured_pieces returned
TilesOf(value) ==
    UNION {{value[i].items[j] : j \in 1..Len(value[i].items)} :
             i \in 1..Len(value)}

Cell(b, p) == Get(b, toString(p))

Opposite(c) == IF c = WHITE THEN BLACK ELSE WHITE

times(k, d) == vector(k * d[1], k * d[2])

\* the tiles that placing c at p brackets, by the rules of the game:
\* runs of the opposite colour that end at a tile of colour c
Bracketed(b, n, p, c) ==
    {q \in Grid(n) :
        \E i \in 1..Len(deltas) : \E k \in 1..n :
            /\ \E j \in 1..k : q = plus(p, times(j, deltas[i]))
            /\ \A j \in 1..k :
                 /\ InRange(n, plus(p, times(j, deltas[i])))
                 /\ Cell(b, plus(p, times(j, deltas[i]))) = Opposite(c)
            /\ InRange(n, plus(p, times(k + 1, deltas[i])))
            /\ Cell(b, plus(p, times(k + 1, deltas[i]))) = c}

GridKeys(n) == {toString(p) : p \in Grid(n)}

\* C1: is_legal_move(p, c) is true iff the cell p is Empty and
\* captured_pieces(p, c) contains at least one position.
C1_LegalIffEmptyAndCaptures ==
    (last.op = "is_legal_move" /\ last.c \in {WHITE, BLACK}) =>
        /\ last.outcome = "ok"
        /\ last.flag <=>
             /\ Cell(board, last.p) = EMPTY
             /\ captured_pieces(board, width, last.p, last.c).returns
             /\ TilesOf(captured_pieces(board, width, last.p, last.c).value) # {}

\* C2: take_move(p, c) on a legal move leaves p and every cell of
\* captured_pieces(p, c), evaluated before the call, holding c and every
\* other cell of the grid as it was; on the initial 8x8 board
\* take_move((2,3), Black) leaves (2,3) and (3,3) Black and the rest unchanged.
C2_TakeMoveFlipsCaptures ==
    [][last'.op = "take_move" =>
        /\ is_legal_move(board, width, last'.p, last'.c).value =>
             LET flipped == TilesOf(captured_pieces(board, width,
                                                    last'.p, last'.c).value)
             IN  /\ last'.outcome = "ok"
                 /\ Cell(board', last'.p) = last'.c
                 /\ \A q \in flipped : Cell(board', q) = last'.c
                 /\ \A q \in Grid(width) \ (flipped \cup {last'.p}) :
                        Cell(board', q) = Cell(board, q)
        /\ ( /\ width = 8
             /\ board = init_board(8)
             /\ last'.p = vector(2, 3)
             /\ last'.c = BLACK ) =>
             /\ last'.outcome = "ok"
             /\ Cell(board', vector(2, 3)) = BLACK
             /\ Cell(board', vector(3, 3)) = BLACK
             /\ \A q \in Grid(8) \ {vector(2, 3), vector(3, 3)} :
                    Cell(board', q) = Cell(board, q)
      ]_vars

\* C3: take_move(p, c) with is_legal_move(p, c) false signals IllegalMove and
\* leaves the cell mapping as it was; on the initial 8x8 board
\* take_move((5,5), White) raises IllegalMove and changes no cell.
C3_IllegalMoveThrows ==
    [][last'.op = "take_move" =>
        /\ ~is_legal_move(board, width, last'.p, last'.c).value =>
             (last'.outcome = "throw" /\ board' = board)
        /\ ( /\ width = 8
             /\ board = init_board(8)
             /\ last'.p = vector(5, 5)
             /\ last'.c = WHITE ) =>
             (last'.outcome = "throw" /\ board' = board)
      ]_vars

\* C4: captured_pieces(p, c) is exactly the set of the cells of the runs of
\* the opposite colour that start next to p in one of the 8 directions and
\* end at a cell of colour c.
C4_CapturesAreBracketedRuns ==
    (last.op = "captured_pieces" /\ last.c \in {WHITE, BLACK}) =>
        /\ last.outcome = "ok"
        /\ TilesOf(last.value) = Bracketed(board, width, last.p, last.c)

\* C5: a freshly constructed board of even side N >= 4 has exactly 4
\* non-Empty cells: (N/2-1,N/2-1) and (N/2,N/2) White, (N/2-1,N/2) and
\* (N/2,N/2-1) Black; every other cell is Empty.
C5_InitialPattern ==
    (moves = 0 /\ width % 2 = 0 /\ width >= 4) =>
        LET h == width \div 2
            whites == {vector(h - 1, h - 1), vector(h, h)}
            blacks == {vector(h - 1, h), vector(h, h - 1)}
        IN  /\ DOMAIN board \cap GridKeys(width) = GridKeys(width)
            /\ \A p \in Grid(width) :
                 Cell(board, p) = IF p \in whites THEN WHITE
                                  ELSE IF p \in blacks THEN BLACK
                                  ELSE EMPTY
            /\ Cardinality({p \in Grid(width) : Cell(board, p) # EMPTY}) = 4

C5_Witness ==
    /\ moves = 0
    /\ width = 8
    /\ last.op = "idle"
    /\ Cell(board, vector(3, 4)) = BLACK

\* C6: is_legal_move(p, c) returns false, and returns, for every p outside
\* the grid and every p whose cell is White or Black, whatever the colour c.
C6_OffGridOrOccupiedIsIllegal ==
    ( /\ last.op = "is_legal_move"
      /\ \/ ~InRange(width, last.p)
         \/ Cell(board, last.p) \in {WHITE, BLACK} ) =>
        (last.outcome = "ok" /\ last.flag = FALSE)

C6_Witness ==
    /\ last.op = "is_legal_move"
    /\ last.p = vector(width - 1 + Margin, width - 1 + Margin)
    /\ last.c = BLACK
    /\ last.outcome = "ok"
    /\ ~last.flag

\* C7: the result of captured_pieces(p, c) never contains p itself, a
\* position whose cell is Empty, or a position outside the grid.
C7_CapturesExcludeTarget ==
    (last.op = "captured_pieces" /\ last.outcome = "ok") =>
        \A q \in TilesOf(last.value) :
            /\ q # last.p
            /\ InRange(width, q)
            /\ Cell(board, q) # EMPTY

\* C8: no call ever changes a cell from White or Black back to Empty.
C8_NeverBackToEmpty ==
    [][\A p \in Grid(width) :
          Cell(board, p) \in {WHITE, BLACK} =>
              Cell(board', p) \in {WHITE, BLACK}]_vars

\* a take_move that would empty a cell placed by an earlier move was tried
C8_Witness ==
    /\ moves >= 1
    /\ last.op = "take_move"
    /\ last.c = EMPTY
    /\ InRange(width, last.p)
    /\ Cell(board, last.p) \in {WHITE, BLACK}
    /\ Cell(init_board(width), last.p) = EMPTY

\* C9: the mapping has a TileState for every position of the grid, and no
\* other key is ever stored into it or looked up in it.
C9_OnlyGridKeys ==
    /\ \A k \in GridKeys(width) : k \in DOMAIN board /\ board[k] \in TILESTATE
    /\ DOMAIN board \subseteq GridKeys(width)
    /\ last.looked \subseteq GridKeys(width)

ScanItems(b, n, p, c) ==
    [i \in 1..Len(deltas) |->
        captured_pieces_in_direction(b, n, p, c, deltas[i]).items]

\* the set of the elements of a sequence
Elems(seq) == {seq[j] : j \in 1..Len(seq)}

\* C11: every call of captured_pieces, is_legal_move and take_move
\* terminates, and each directional scan stops after visiting at most N
\* cells.
C11_CallsTerminate ==
    /\ last.outcome # "hang"
    /\ last.op = "captured_pieces" =>
         \A i \in 1..Len(deltas) :
            LET s == captured_pieces_in_direction(board, width, last.p,
                                                  last.c, deltas[i])
            IN  s.returns /\ Cardinality(s.looked \ {"false"}) <= width

\* C12: each scan of captured_pieces(p, c) examines p + delta first, not p,
\* and the state of the cell p does not influence the result of any
\* direction.
C12_ScanStartsAtNeighbour ==
    (last.op = "captured_pieces" /\ InRange(width, last.p)) =>
        /\ toString(last.p) \notin last.looked
        /\ \A v \in TILESTATE :
             LET b == Put(board, toString(last.p), v)
             IN  /\ captured_pieces(b, width, last.p, last.c).returns
                      = (last.outcome = "ok")
                 /\ ScanItems(b, width, last.p, last.c)
                      = ScanItems(board, width, last.p, last.c)

\* C13: the capture sets of the 8 scans of captured_pieces(p, c) are
\* pairwise disjoint, and the result is a flat collection of positions in
\* which no position appears twice: it has one element per captured position.
C13_FlatDisjointUnion ==
    (last.op = "captured_pieces" /\ last.outcome = "ok") =>
        LET items == ScanItems(board, width, last.p, last.c)
        IN  /\ \A i, j \in 1..Len(deltas) :
                 i # j => Elems(items[i]) \cap Elems(items[j]) = {}
            /\ Len(last.value) = Cardinality(TilesOf(last.value))

\* the cells of the grid that hold colour c
Holding(b, n, c) == {p \in Grid(n) : Cell(b, p) = c}

Occupied(b, n) == {p \in Grid(n) : Cell(b, p) # EMPTY}

\* p and q are distinct and adjacent in one of the 8 directions
Adjacent(p, q) ==
    /\ p # q
    /\ p[1] - q[1] \in {-1, 0, 1}
    /\ p[2] - q[2] \in {-1, 0, 1}

\* the cells of S that a chain of adjacent cells of S links to a cell of seen
RECURSIVE Reachable(_, _)
Reachable(S, seen) ==
    LET more == {q \in S \ seen : \E p \in seen : Adjacent(p, q)}
    IN  IF more = {} THEN seen ELSE Reachable(S, seen \cup more)

Connected(S) == S = {} \/ \E p \in S : Reachable(S, {p}) = S

\* C14: every successful take_move(p, c) with c White or Black increases
\* the number of cells holding c by at least 2 and decreases the number of
\* cells holding the opposite colour by at least 1.
C14_MoveGainsAtLeastTwo ==
    [][( /\ last'.op = "take_move"
         /\ last'.outcome = "ok"
         /\ last'.c \in {WHITE, BLACK} ) =>
        /\ Cardinality(Holding(board', width, last'.c))
             >= Cardinality(Holding(board, width, last'.c)) + 2
        /\ Cardinality(Holding(board', width, Opposite(last'.c)))
             <= Cardinality(Holding(board, width, Opposite(last'.c))) - 1
      ]_vars

\* C15: a take_move(p, c) with c White or Black succeeds only if a
\* neighbour of p holds the opposite colour, and the non-Empty cells stay
\* 8-connected.
C15_MovesKeepBoardConnected ==
    [][( /\ last'.op = "take_move"
         /\ last'.outcome = "ok"
         /\ last'.c \in {WHITE, BLACK} ) =>
        /\ \E q \in Holding(board, width, Opposite(last'.c)) :
              Adjacent(last'.p, q)
        /\ Connected(Occupied(board', width))
      ]_vars

\* C16: a successful take_move increases the number of non-Empty cells by
\* exactly 1 and a failing one leaves it unchanged, so after k successful
\* moves there are 4 + k non-Empty cells; after N*N - 4 successes
\* is_legal_move is false for every position and colour.
C16_OneMorePiecePerMove ==
    [][last'.op = "take_move" =>
        /\ Cardinality(Occupied(board', width))
             = Cardinality(Occupied(board, width))
                 + (IF last'.outcome = "ok" THEN 1 ELSE 0)
        /\ Cardinality(Occupied(board', width)) = 4 + moves'
        /\ moves' = width * width - 4 =>
              \A p \in Positions(width) : \A c \in TILESTATE :
                  ~is_legal_move(board', width, p, c).value
      ]_vars

\* C17: is_legal_move(p, Empty) is false for every position p, and
\* take_move(p, Empty) always fails with IllegalMove.
C17_EmptyColourIsIllegal ==
    /\ (last.op = "is_legal_move" /\ last.c = EMPTY) =>
          (last.outcome = "ok" /\ ~last.flag)
    /\ (last.op = "take_move" /\ last.c = EMPTY) => last.outcome = "throw"
====
